---- MODULE Spec2Model ----
(***************************************************************************)
(* PhyloShape: ancestral shape reconstruction by maximum likelihood.       *)
(* A model of class PhyloShape (phylo/src/phylo.py) and of Vertices        *)
(* (shape/src/vertex.py): one object is constructed from a tree and a set  *)
(* of shape samples, then its public methods are called, either one by one *)
(* or through reconstruct_ancestral_shapes_using_ml.  An exception ends    *)
(* the run: it propagates to the top-level caller.                         *)
(***************************************************************************)
EXTENDS Integers, Sequences, FiniteSets, TLC

VARIABLES
    cfg,                \* the constructor's arguments (tree, shapes, model, transforms)
    pc,                 \* where the caller is: new, idle, min_loop, min_run, min_end, raised
    err,                \* the exception that ended the run ("" while none)
    calls,              \* public calls made by the top-level caller (the full pipeline uses up the budget)
    stage,              \* 0, or the step of reconstruct_ancestral_shapes_using_ml to run next
    done,               \* the public call that has just returned normally ("" while none)
    nodes,              \* tree node attributes: vertices, vectors, vectors_symbols
    model,              \* self.model: number of parameters of the motion model
    vect_transform,     \* self.vect_transform is set
    vect_inverse_transform, \* self.vect_inverse_transform is set
    variables,          \* self.__variables
    vv_translator,      \* self.vv_translator is built
    loglike_form,       \* self.loglike_form: the terms of the sum
    negloglike_func,    \* self.negloglike_func(_s): <<>> or <<compiled>>
    result,             \* self.__result: <<>> or <<result>>
    count_run,          \* minimize_negloglike: local count_run
    success_runs,       \* minimize_negloglike: local success_runs
    initials,           \* minimize_negloglike: initials of the attempt in flight (scaled by Scale)
    started,            \* minimize_negloglike: attempts started by the current call
    rng,                \* state of numpy's global random generator
    num_proc,           \* the num_proc argument of the top-level caller's last call (default 1)
    workers,            \* processes running the attempt in flight (0 while none runs)
    repeated,           \* history: the call that has just returned is the one that returned before it
    before              \* history: nodes and result when minimize_negloglike was entered

vars == <<cfg, pc, err, calls, stage, done, nodes, model, vect_transform,
          vect_inverse_transform, variables, vv_translator, loglike_form,
          negloglike_func, result, count_run, success_runs, initials, started,
          rng, num_proc, workers, repeated, before>>

(***************************************************************************)
(* Bounds of the model.                                                    *)
(***************************************************************************)
MaxTips == 3        \* leaves of the largest tree
MaxParams == 2      \* parameters of the caller-supplied motion model
MaxVt == 1          \* vectors per shape produced by the translator
MaxPC == 1          \* components kept by the caller's forward transform
MaxCalls == 5       \* public calls made on one object
MaxIndex == 11      \* largest node index and component index whose symbol names are compared

(***************************************************************************)
(* Program constants.                                                      *)
(***************************************************************************)
MaxAttempts == 200  \* while count_run < 200
Scale == 100000     \* fixed point: the real r is the integer r * Scale

(***************************************************************************)
(* The tree (toytree): indices [0, ntips) are leaves, [ntips, nnodes) are  *)
(* internal nodes, the root has the largest index.                         *)
(***************************************************************************)
TreeKinds == {"star", "ladder"}

NNodes(c) == IF c.kind = "star" THEN c.ntips + 1 ELSE 2 * c.ntips - 1

Tips(c) == 0 .. (c.ntips - 1)

Internals(c) == c.ntips .. (NNodes(c) - 1)

Root(c) == NNodes(c) - 1

\* node.up.idx
Up(c, n) ==
    IF c.kind = "star" THEN Root(c)
    ELSE IF n < c.ntips THEN (IF n = 0 THEN c.ntips ELSE c.ntips + n - 1)
    ELSE n + 1

\* node._dist
Dist(c, n) == n + 1

\* node.name of a leaf
LeafName(n) == "t" \o ToString(n)

\* tree.traverse(): every node once, the root first
RECURSIVE TraverseFrom(_, _)
TraverseFrom(c, n) == IF n < 0 THEN <<>> ELSE <<n>> \o TraverseFrom(c, n - 1)

Traverse(c) == TraverseFrom(c, Root(c))

(***************************************************************************)
(* numpy arrays: a shape and the row-major data.                           *)
(***************************************************************************)
RECURSIVE Prod(_)
Prod(s) == IF s = <<>> THEN 1 ELSE Head(s) * Prod(Tail(s))

NoArray == [kind |-> "unset", shape |-> <<>>, data |-> <<>>]

Flatten(a) == a.data

\* a[lo:hi] of Python: 0-based, half-open, cut at the end of the sequence
Slice(s, lo, hi) ==
    LET h == IF hi > Len(s) THEN Len(s) ELSE hi
    IN  IF lo >= h THEN <<>> ELSE [i \in 1 .. (h - lo) |-> s[lo + i]]

\* np.array(data).reshape(shape) succeeds iff the sizes agree
ReshapeOK(data, shape) == Len(data) = Prod(shape)

Reshape(data, shape, kind) == [kind |-> kind, shape |-> shape, data |-> data]

(***************************************************************************)
(* Collaborators whose code is not part of the sources: the translator     *)
(* (VertexVectorMapper), the motion model and the shape alignment.         *)
(***************************************************************************)
\* len(vv_translator.vh_list()) + 1 vertices per shape
NumVertices(c) == c.nvt + 1

\* vv_translator.to_vectors(vertices): one 3-D vector per vertex pair
ToVectors(c, n) ==
    [kind |-> "num", shape |-> <<c.nvt, 3>>,
     data |-> [i \in 1 .. (c.nvt * 3) |-> "v" \o ToString(n) \o "_" \o ToString(i)]]

\* vect_transform(vectors_list)[n]: the caller's projection onto c.pcs components
Transformed(c, n) ==
    [kind |-> "num", shape |-> <<c.pcs>>,
     data |-> [i \in 1 .. c.pcs |-> "w" \o ToString(n) \o "_" \o ToString(i)]]

\* model.get_parameters(): the ordered parameter symbols
GetParameters(p) == [i \in 1 .. p |-> "p" \o ToString(i)]

\* Brownian() has the rate as its only parameter
BrownianParams == 1

\* self.shapes[name]: (label, vertices) of the sample
ShapeOf(c, n) == [label |-> LeafName(n), ncoords |-> NumVertices(c)]

\* name in self.shapes
InShapes(c, n) == n \notin c.missing

(***************************************************************************)
(* Vertices.__init__(coords, colors=None)                                  *)
(***************************************************************************)
\* len(self.colors): np.array([]) when colors is None
ColorsLen(ncolors, given) == IF given THEN ncolors ELSE 0

\* mutant: the lengths of coords and colors are not compared
VerticesInitUnchecked(ncoords, ncolors, given) == TRUE

VerticesInitOK(ncoords, ncolors, given) == ncoords = ColorsLen(ncolors, given)

\* Vertices.__len__
VerticesLen(v) == v.ncoords

NoNode == [vertices |-> <<>>, vectors |-> NoArray, vectors_symbols |-> NoArray]

(***************************************************************************)
(* Construction inputs.                                                    *)
(***************************************************************************)
\* the states of numpy's global generator the model tells apart
RngStates == 0 .. 2

Configs ==
    { c \in [ntips : 2 .. MaxTips, kind : TreeKinds,
             missing : SUBSET (0 .. (MaxTips - 1)),
             modelArg : {-1, 0, MaxParams},
             fwd : BOOLEAN, inv : BOOLEAN,
             nvt : 1 .. MaxVt, pcs : 0 .. MaxPC,
             seed : RngStates, basins : {{}, {1}}] :
        /\ c.missing \subseteq Tips(c)
        /\ Cardinality(c.missing) <= 1
        /\ (c.ntips = 2 => c.kind = "star")
        /\ (c.pcs = 0) = ~c.fwd
        /\ (c.basins = {} => c.seed = 0) }

Init ==
    /\ cfg \in Configs
    /\ pc = "new"
    /\ err = ""
    /\ calls = 0
    /\ stage = 0
    /\ done = ""
    /\ nodes = [n \in 0 .. (NNodes(cfg) - 1) |-> NoNode]
    /\ model = 0
    /\ vect_transform = FALSE
    /\ vect_inverse_transform = FALSE
    /\ variables = <<>>
    /\ vv_translator = FALSE
    /\ loglike_form = <<>>
    /\ negloglike_func = <<>>
    /\ result = <<>>
    /\ count_run = 0
    /\ success_runs = <<>>
    /\ initials = <<>>
    /\ started = 0
    /\ rng = cfg.seed
    /\ num_proc = 1
    /\ workers = 0
    /\ repeated = FALSE
    /\ before = [nodes |-> nodes, result |-> result]

(***************************************************************************)
(* PhyloShape.__init__                                                     *)
(***************************************************************************)
\* mutant: a leaf without a sample is not detected
FirstMissingIgnored(c) == c.ntips

\* __map_shape_to_tip: the first leaf whose name is not in the shapes, or ntips
FirstMissing(c) ==
    IF \E n \in Tips(c) : ~InShapes(c, n)
    THEN CHOOSE n \in Tips(c) :
            /\ ~InShapes(c, n)
            /\ \A m \in Tips(c) : m < n => InShapes(c, m)
    ELSE c.ntips

\* __map_shape_to_tip: leaves before the first missing one get their vertices
MapShapeToTip(c, nd) ==
    [n \in DOMAIN nd |->
        IF n < FirstMissing(c)
        THEN [nd[n] EXCEPT !.vertices = <<ShapeOf(c, n)>>]
        ELSE nd[n]]

\* the assertion of lines 67-68
PairingOK(c) == (~c.fwd) = (~c.inv)

\* the exception __init__ ends with, "" when it returns
InitError(c) ==
    IF FirstMissing(c) < c.ntips THEN "MissingData"
    ELSE IF c.modelArg = -1 THEN "NotAMotionModel"
    ELSE IF ~PairingOK(c) THEN "Pairing"
    ELSE ""

Construct ==
    /\ pc = "new"
    /\ nodes' = MapShapeToTip(cfg, nodes)
    /\ IF InitError(cfg) = ""
       THEN /\ pc' = "idle"
            /\ err' = ""
            /\ model' = IF cfg.modelArg = 0 THEN BrownianParams ELSE cfg.modelArg
            /\ vect_transform' = cfg.fwd
            /\ vect_inverse_transform' = cfg.inv
       ELSE /\ pc' = "raised"
            /\ err' = InitError(cfg)
            /\ UNCHANGED <<model, vect_transform, vect_inverse_transform>>
    /\ UNCHANGED <<cfg, rng, num_proc, workers, repeated, calls, stage, done, variables, vv_translator, loglike_form,
                   negloglike_func, result, count_run, success_runs, initials, started, before>>

(***************************************************************************)
(* The top-level caller: a public method is called on its own, or as the   *)
(* next step of reconstruct_ancestral_shapes_using_ml (stage 1 .. 7).      *)
(***************************************************************************)
CanCall(i) == pc = "idle" /\ (stage = i \/ (stage = 0 /\ calls < MaxCalls))

CallsAfter == IF stage = 0 THEN calls + 1 ELSE calls

LastStage == 7

\* normal return of the method `name`
Return(name) ==
    /\ pc' = "idle"
    /\ err' = ""
    /\ stage' = IF stage = 0 \/ stage = LastStage THEN 0 ELSE stage + 1
    /\ done' = IF stage = 0 THEN name
               ELSE IF stage = LastStage THEN "reconstruct_ancestral_shapes_using_ml"
               ELSE done
    /\ repeated' = (stage = 0 /\ done = name)

\* the method ends by raising `kind`
Raise(kind) ==
    /\ pc' = "raised"
    /\ err' = kind
    /\ UNCHANGED <<stage, done, repeated>>

\* values of the num_proc argument the caller tries
NumProcs == {1, 4}

reconstruct_ancestral_shapes_using_ml ==
    /\ pc = "idle" /\ stage = 0 /\ calls < MaxCalls
    /\ stage' = 1
    /\ calls' = MaxCalls
    /\ done' = ""
    /\ repeated' = FALSE
    /\ \E h \in NumProcs : num_proc' = h
    /\ UNCHANGED <<cfg, rng, workers, pc, err, nodes, model, vect_transform,
                   vect_inverse_transform, variables, vv_translator, loglike_form,
                   negloglike_func, result, count_run, success_runs, initials, started, before>>

(***************************************************************************)
(* build_vv_translator                                                     *)
(***************************************************************************)
build_vv_translator ==
    /\ CanCall(1)
    /\ calls' = CallsAfter
    /\ vv_translator' = TRUE
    /\ Return("build_vv_translator")
    /\ UNCHANGED <<cfg, rng, num_proc, workers, nodes, model, vect_transform, vect_inverse_transform,
                   variables, loglike_form, negloglike_func, result, count_run,
                   success_runs, initials, started, before>>

(***************************************************************************)
(* build_tip_vectors                                                       *)
(***************************************************************************)
TipVectors(c, n) == IF vect_transform THEN Transformed(c, n) ELSE ToVectors(c, n)

build_tip_vectors ==
    /\ CanCall(2)
    /\ calls' = CallsAfter
    /\ IF vv_translator
       THEN /\ nodes' = [n \in DOMAIN nodes |->
                            IF n \in Tips(cfg)
                            THEN [nodes[n] EXCEPT !.vectors = TipVectors(cfg, n)]
                            ELSE nodes[n]]
            /\ Return("build_tip_vectors")
       ELSE /\ Raise("AttributeError")
            /\ UNCHANGED nodes
    /\ UNCHANGED <<cfg, rng, num_proc, workers, model, vect_transform, vect_inverse_transform, variables,
                   vv_translator, loglike_form, negloglike_func, result, count_run,
                   success_runs, initials, started, before>>

(***************************************************************************)
(* sym_ancestral_vectors                                                   *)
(***************************************************************************)
\* mutant: the symbol is named after its component alone
SymbolNameOfComponent(node_id, go_v) == ToString(go_v)

\* Symbol("%s_%s" % (node_id, go_v))
SymbolName(node_id, go_v) == ToString(node_id) \o "_" \o ToString(go_v)

\* mutant: the symbols are left as a flat array
SymbolArrayFlat(node_id, shape) ==
    Reshape([i \in 1 .. Prod(shape) |-> SymbolName(node_id, i - 1)], <<Prod(shape)>>, "sym")

\* np.array([Symbol(...) for go_v in range(n_vals)]).reshape(vectors_shape)
SymbolArray(node_id, shape) ==
    Reshape([i \in 1 .. Prod(shape) |-> SymbolName(node_id, i - 1)], shape, "sym")

sym_ancestral_vectors ==
    /\ CanCall(3)
    /\ calls' = CallsAfter
    /\ IF nodes[0].vectors.kind # "unset"
       THEN /\ nodes' = [n \in DOMAIN nodes |->
                            IF n \in Internals(cfg)
                            THEN [nodes[n] EXCEPT
                                    !.vectors = SymbolArray(n, nodes[0].vectors.shape),
                                    !.vectors_symbols = SymbolArray(n, nodes[0].vectors.shape)]
                            ELSE nodes[n]]
            /\ Return("sym_ancestral_vectors")
       ELSE /\ Raise("AttributeError")
            /\ UNCHANGED nodes
    /\ UNCHANGED <<cfg, rng, num_proc, workers, model, vect_transform, vect_inverse_transform, variables,
                   vv_translator, loglike_form, negloglike_func, result, count_run,
                   success_runs, initials, started, before>>

(***************************************************************************)
(* formularize_log_like and __update_variables                             *)
(***************************************************************************)
\* mutant: the node's own vector as from_states, its parent's as to_states
FormLogLikeSwapped(c, nd, n) ==
    [node |-> n, time |-> Dist(c, n),
     from_states |-> nd[n].vectors, to_states |-> nd[Up(c, n)].vectors]

\* model.form_log_like(time, from_states, to_states, log_f) of one branch
FormLogLike(c, nd, n) ==
    [node |-> n, time |-> Dist(c, n),
     from_states |-> nd[Up(c, n)].vectors, to_states |-> nd[n].vectors]

\* the term of node n can be built: both vectors exist
TermOK(c, nd, n) == nd[Up(c, n)].vectors.kind # "unset" /\ nd[n].vectors.kind # "unset"

\* the terms accumulated over the traversal order, up to the first failure
RECURSIVE Terms(_, _, _)
Terms(c, nd, order) ==
    IF order = <<>> THEN <<>>
    ELSE IF Head(order) = Root(c) THEN Terms(c, nd, Tail(order))
    ELSE IF ~TermOK(c, nd, Head(order)) THEN <<>>
    ELSE <<FormLogLike(c, nd, Head(order))>> \o Terms(c, nd, Tail(order))

TraversalOK(c, nd) == \A n \in DOMAIN nd : n # Root(c) => TermOK(c, nd, n)

\* the flattened symbols of the internal nodes n .. nnodes-1, in index order
RECURSIVE NodeSymbols(_, _, _)
NodeSymbols(c, nd, n) ==
    IF n > Root(c) THEN <<>>
    ELSE Flatten(nd[n].vectors_symbols) \o NodeSymbols(c, nd, n + 1)

\* mutant: the node symbols come before the model parameters
UpdateVariablesSymbolsFirst(c, nd, p) == NodeSymbols(c, nd, c.ntips) \o GetParameters(p)

\* mutant: the list is extended without being emptied first
UpdateVariablesAppending(c, nd, p) ==
    variables \o GetParameters(p) \o NodeSymbols(c, nd, c.ntips)

\* __update_variables: the list is emptied, then the parameters and the
\* symbols of the internal nodes are appended
UpdateVariables(c, nd, p) == GetParameters(p) \o NodeSymbols(c, nd, c.ntips)

formularize_log_like ==
    /\ CanCall(4)
    /\ calls' = CallsAfter
    /\ loglike_form' = Terms(cfg, nodes, Traverse(cfg))
    /\ IF TraversalOK(cfg, nodes)
       THEN /\ variables' = UpdateVariables(cfg, nodes, model)
            /\ Return("formularize_log_like")
       ELSE /\ Raise("AttributeError")
            /\ UNCHANGED variables
    /\ UNCHANGED <<cfg, rng, num_proc, workers, nodes, model, vect_transform, vect_inverse_transform,
                   vv_translator, negloglike_func, result, count_run, success_runs,
                   initials, started, before>>

(***************************************************************************)
(* functionalize_log_like                                                  *)
(***************************************************************************)
\* lambdify(args=self.__variables, exprs=[-self.loglike_form])
Lambdify(args, expr) == [args |-> args, negated |-> expr]

\* what the call of lambdify can end in: the method checks nothing itself, and
\* whether symengine compiles a function of no arguments is left to symengine
LambdifyOutcomes(args) ==
    IF Len(args) = 0 THEN {"callable", "NotImplementedError"} ELSE {"callable"}

\* mutant: lambdify empties the list it is handed
ArgsConsumedByLambdify(args) == <<>>

\* self.__variables after lambdify: the list itself is passed as args, not a
\* copy, and lambdify only reads it
ArgsAfterLambdify(args) == args

functionalize_log_like ==
    /\ CanCall(5)
    /\ calls' = CallsAfter
    /\ \E out \in LambdifyOutcomes(variables) :
        IF out = "callable"
        THEN /\ negloglike_func' = <<Lambdify(variables, loglike_form)>>
             /\ variables' = ArgsAfterLambdify(variables)
             /\ Return("functionalize_log_like")
        ELSE /\ Raise(out)
             /\ UNCHANGED <<negloglike_func, variables>>
    /\ UNCHANGED <<cfg, rng, num_proc, workers, nodes, model, vect_transform, vect_inverse_transform,
                   vv_translator, loglike_form, result, count_run,
                   success_runs, initials, started, before>>

(***************************************************************************)
(* minimize_negloglike                                                     *)
(***************************************************************************)
\* values np.random.random can return, in [0, 1), scaled
Draws == {0, 99900}

\* the generator after one call of np.random.random
NextRng(g) == (g + 1) % Cardinality(RngStates)

\* np.random.random(n) with the global generator in state g: all draws low,
\* all draws high, or low and high in turn
RandomRandom(g, n) ==
    [i \in 1 .. n |->
        IF g = 0 THEN 0
        ELSE IF g = 1 THEN 99900
        ELSE IF i % 2 = 1 THEN 0 ELSE 99900]

\* mutant: every call draws from a generator of its own, freshly seeded by the
\* operating system
RandomDrawsUnseeded(g, n) == {RandomRandom(h, n) : h \in RngStates}

\* line 215: the draws come from the process-wide generator, which the code
\* neither seeds nor saves
RandomDraws(g, n) == {RandomRandom(g, n)}

\* 1 - (u - 0.5) * 0.01
Perturb(u) == Scale - ((u - (Scale \div 2)) \div 100)

\* initials[-len_vt:] = 1 - (initials[-len_vt:] - 0.5) * 0.01
PerturbTail(r, len_vt) ==
    [i \in 1 .. Len(r) |-> IF i > Len(r) - len_vt THEN Perturb(r[i]) ELSE r[i]]

\* len(vector_mean): the flattened size of the mean of the tip vectors
LenVt(nd) == Prod(nd[0].vectors.shape)

\* result.x of an attempt over n free variables: one value per position
ResultX(n) == [i \in 1 .. n |-> "x" \o ToString(i)]

\* the draw an entry of the initial guess was computed from
Undo(v) == IF v = Perturb(99900) THEN 99900 ELSE IF v = Perturb(0) THEN 0 ELSE v

\* the starting points the objective tells apart: by their first two entries
GuessClass(x0) ==
    IF Len(x0) < 2 THEN 0
    ELSE IF Undo(x0[1]) = 99900 THEN 1
    ELSE IF Undo(x0[2]) = 99900 THEN 2
    ELSE 0

\* lines 229-233: basinhopping with seed=12345678 is a function of the
\* objective and of x0; c.basins are the starting points it succeeds from
Basinhopping(c, x0) == IF GuessClass(x0) \in c.basins THEN "success" ELSE "failure"

\* what one basinhopping call can end in
Outcomes(c, func, x0) ==
    IF func = <<>> THEN {"TypeError"}
    ELSE IF Len(func[1].args) # Len(x0) THEN {"TypeError"}
    ELSE IF Len(x0) = 0 THEN {"ValueError", "success", "failure"}
    ELSE {Basinhopping(c, x0)}

\* mutant: the loop goes on after a success
SuccessPcNoBreak == "min_loop"

\* line 242: break leaves the loop
SuccessPc == "min_end"

\* mutant: one attempt too many
LoopGuardOffByOne(n) == n <= MaxAttempts

\* while count_run < 200
LoopGuard(n) == n < MaxAttempts

\* __summarize_ml_result from internal node n on, go_p entries of x consumed:
\* the nodes as assigned up to the first chunk that cannot be reshaped
RECURSIVE Summarize(_, _, _, _, _)
Summarize(c, nd, x, n, go_p) ==
    LET shape == nd[0].vectors.shape
        to_p == go_p + Prod(shape)
        chunk == Slice(x, go_p, to_p)
    IN  IF n > Root(c) THEN [nodes |-> nd, ok |-> TRUE, used |-> go_p]
        ELSE IF ~ReshapeOK(chunk, shape) THEN [nodes |-> nd, ok |-> FALSE, used |-> go_p]
        ELSE Summarize(c, [nd EXCEPT ![n].vectors = Reshape(chunk, shape, "num")],
                       x, n + 1, to_p)

SummarizeMlResult(c, nd, x, p) == Summarize(c, nd, x, c.ntips, p)

\* the run picked when the loop is over
PickRun(runs) == runs[1]

\* mutant: the last result is unpacked whether or not it succeeded
FinishNodesAlways(c, nd, runs, p, nvars) ==
    SummarizeMlResult(c, nd, IF runs # <<>> THEN PickRun(runs).x ELSE ResultX(nvars), p).nodes

\* lines 247-255: the nodes after the loop; they are unpacked only from a success
FinishNodes(c, nd, runs, p, nvars) ==
    IF runs # <<>> THEN SummarizeMlResult(c, nd, PickRun(runs).x, p).nodes ELSE nd

minimize_enter ==
    /\ CanCall(6)
    /\ calls' = CallsAfter
    /\ pc' = "min_loop"
    /\ count_run' = 0
    /\ success_runs' = <<>>
    /\ initials' = <<>>
    /\ started' = 0
    /\ done' = ""
    /\ repeated' = FALSE
    /\ before' = [nodes |-> nodes, result |-> result]
    /\ IF stage = 0 THEN \E h \in NumProcs : num_proc' = h ELSE UNCHANGED num_proc
    /\ UNCHANGED <<cfg, rng, workers, err, stage, nodes, model, vect_transform,
                   vect_inverse_transform, variables, vv_translator, loglike_form,
                   negloglike_func, result>>

\* the num_proc minimize_negloglike receives when its caller was given h: h
\* itself, or the literal 1 of line 283 inside the pipeline
ReceivedNumProc(h) == IF stage = 0 THEN h ELSE 1

\* mutant: an attempt runs in as many processes as num_proc asks for
WorkersAsHinted(n) == n

\* lines 228-239: the branch on num_proc is commented out, every attempt is one
\* basinhopping call in the calling process
Workers(n) == 1

\* lines 213-217: the initial guess of one attempt, the call having received
\* num_proc from a caller that was given h
MinimizeGuess(h) ==
    /\ pc = "min_loop"
    /\ LoopGuard(count_run)
    /\ IF nodes[0].vectors.kind = "unset"
       THEN /\ Raise("AttributeError")
            /\ UNCHANGED <<initials, started, workers, rng>>
       ELSE /\ \E r \in RandomDraws(rng, Len(variables)) :
                    initials' = PerturbTail(r, LenVt(nodes))
            /\ rng' = NextRng(rng)
            /\ started' = started + 1
            /\ workers' = Workers(ReceivedNumProc(h))
            /\ pc' = "min_run"
            /\ UNCHANGED <<err, stage, done, repeated>>
    /\ UNCHANGED <<cfg, num_proc, calls, nodes, model, vect_transform, vect_inverse_transform,
                   variables, vv_translator, loglike_form, negloglike_func, result,
                   count_run, success_runs, before>>

minimize_guess == MinimizeGuess(num_proc)

\* lines 229-246: one basinhopping call and the check of its success flag
minimize_attempt ==
    /\ pc = "min_run"
    /\ \E out \in Outcomes(cfg, negloglike_func, initials) :
        IF out = "success"
        THEN /\ success_runs' = Append(success_runs,
                    [success |-> TRUE, attempt |-> started, x |-> ResultX(Len(initials))])
             /\ pc' = SuccessPc
             /\ initials' = <<>>
             /\ UNCHANGED <<err, stage, done, repeated, count_run>>
        ELSE IF out = "failure"
        THEN /\ count_run' = count_run + 1
             /\ pc' = "min_loop"
             /\ initials' = <<>>
             /\ UNCHANGED <<err, stage, done, repeated, success_runs>>
        ELSE /\ Raise(out)
             /\ UNCHANGED <<count_run, success_runs, initials>>
    /\ workers' = 0
    /\ UNCHANGED <<cfg, rng, num_proc, calls, nodes, model, vect_transform, vect_inverse_transform,
                   variables, vv_translator, loglike_form, negloglike_func, result,
                   started, before>>

\* lines 247-255: after the loop
minimize_finish ==
    /\ pc = "min_end" \/ (pc = "min_loop" /\ ~LoopGuard(count_run))
    /\ IF success_runs # <<>>
       THEN LET r == PickRun(success_runs)
                s == SummarizeMlResult(cfg, nodes, r.x, model)
            IN  /\ result' = <<r>>
                /\ IF s.ok THEN Return("minimize_negloglike") ELSE Raise("ValueError")
       ELSE /\ Raise("OptimizationFailed")
            /\ UNCHANGED result
    /\ nodes' = FinishNodes(cfg, nodes, success_runs, model, Len(variables))
    /\ UNCHANGED <<cfg, rng, num_proc, workers, calls, model, vect_transform, vect_inverse_transform,
                   variables, vv_translator, loglike_form, negloglike_func,
                   count_run, success_runs, initials, started, before>>

(***************************************************************************)
(* build_ancestral_vertices                                                *)
(***************************************************************************)
\* the exception building the vertices of internal node n ends with, "" when
\* the node gets its vertices; fail is the node at which the inverse transform
\* or to_vertices raises (-1: at none)
VerticesError(c, nd, n, fail) ==
    IF nd[n].vectors.kind = "unset" \/ ~vv_translator THEN "AttributeError"
    ELSE IF nd[n].vectors.kind = "sym" THEN "TypeError"
    ELSE IF n = fail THEN "ToVerticesError"
    ELSE IF ~VerticesInitOK(NumVertices(c), 0, FALSE) THEN "AssertionError"
    ELSE ""

\* the first internal node whose vertices cannot be built, or nnodes
RECURSIVE FirstFailure(_, _, _, _)
FirstFailure(c, nd, n, fail) ==
    IF n > Root(c) THEN n
    ELSE IF VerticesError(c, nd, n, fail) # "" THEN n
    ELSE FirstFailure(c, nd, n + 1, fail)

build_ancestral_vertices ==
    /\ CanCall(7)
    /\ calls' = CallsAfter
    /\ \E fail \in {-1} \cup Internals(cfg) :
        LET f == FirstFailure(cfg, nodes, cfg.ntips, fail)
        IN  /\ nodes' = [n \in DOMAIN nodes |->
                            IF n \in Internals(cfg) /\ n < f
                            THEN [nodes[n] EXCEPT !.vertices =
                                    <<[label |-> "", ncoords |-> NumVertices(cfg)]>>]
                            ELSE nodes[n]]
            /\ IF f > Root(cfg)
               THEN Return("build_ancestral_vertices")
               ELSE Raise(VerticesError(cfg, nodes, f, fail))
    /\ UNCHANGED <<cfg, rng, num_proc, workers, model, vect_transform, vect_inverse_transform, variables,
                   vv_translator, loglike_form, negloglike_func, result, count_run,
                   success_runs, initials, started, before>>

Next ==
    \/ Construct
    \/ reconstruct_ancestral_shapes_using_ml
    \/ build_vv_translator
    \/ build_tip_vectors
    \/ sym_ancestral_vectors
    \/ formularize_log_like
    \/ functionalize_log_like
    \/ minimize_enter
    \/ minimize_guess
    \/ minimize_attempt
    \/ minimize_finish
    \/ build_ancestral_vertices


Spec == Init /\ [][Next]_vars

(***************************************************************************)
(* Properties.                                                             *)
(***************************************************************************)
InMinimize == pc \in {"min_loop", "min_run", "min_end"}

\* n_vals of the unpacker and of the symbol allocation
NVals == Prod(nodes[0].vectors.shape)

\* the position (1-based) of symbol sym in the free-variable list, 0 if absent
PositionOf(sym) ==
    IF \E i \in 1 .. Len(variables) : variables[i] = sym
    THEN CHOOSE i \in 1 .. Len(variables) : variables[i] = sym
    ELSE 0

AllInternalHaveVertices == \A n \in Internals(cfg) : nodes[n].vertices # <<>>

NoInternalHasVertices == \A n \in Internals(cfg) : nodes[n].vertices = <<>>

\* C1: when reconstruct_ancestral_shapes_using_ml has got past a successful
\* optimization, it returns with vertices assigned to every internal node:
\* build_ancestral_vertices ends by raising only if the translator raises.
C1_ReconstructPopulatesInternalNodes ==
    /\ done = "reconstruct_ancestral_shapes_using_ml" => AllInternalHaveVertices
    /\ (pc = "raised" /\ stage = LastStage) => err = "ToVerticesError"

\* C2: an attempt is started only while no attempt has reported success, at
\* most one success is ever recorded, it is the attempt started last, and the
\* result stored on return is that attempt's result.
C2_FirstSuccessWins ==
    /\ [][started' > started => success_runs = <<>>]_vars
    /\ [](success_runs # <<>> =>
            /\ Len(success_runs) = 1
            /\ success_runs[1].attempt = started
            /\ ~(pc = "min_loop" /\ LoopGuard(count_run)))
    /\ [][(InMinimize /\ pc' = "idle") => result' = <<success_runs[1]>>]_vars

C2_Witness ==
    /\ pc = "idle"
    /\ stage = LastStage
    /\ result # <<>>
    /\ result[1].attempt = 2
    /\ started = 2

\* steps minimize_negloglike can still take: two per attempt left, and the
\* position within the attempt
Variant ==
    2 * (MaxAttempts - count_run)
        + (IF pc = "min_loop" THEN 2 ELSE IF pc = "min_run" THEN 1 ELSE 0)

\* C3: minimize_negloglike never starts more than 200 attempts; it raises the
\* exhaustion error exactly when 200 attempts have been started and all 200
\* have failed; and once entered it ends, by returning or by raising: the
\* loop can always take its next step, and every step that stays inside the
\* call lowers a variant that is never negative.
C3_ExhaustsAfter200 ==
    /\ [](started <= MaxAttempts /\ count_run <= MaxAttempts)
    /\ [](err = "OptimizationFailed" =>
            started = MaxAttempts /\ count_run = MaxAttempts /\ success_runs = <<>>)
    /\ []((pc = "min_loop" /\ count_run = MaxAttempts) => success_runs = <<>>)
    /\ [][(pc = "min_loop" /\ count_run = MaxAttempts) => err' = "OptimizationFailed"]_vars
    /\ [](InMinimize => Variant >= 0)
    /\ []((pc = "min_loop" /\ LoopGuard(count_run)) => ENABLED minimize_guess)
    /\ [](pc = "min_run" => ENABLED minimize_attempt)
    /\ [][(InMinimize /\ InMinimize') => Variant' < Variant]_vars

C3_Witness == err = "OptimizationFailed" /\ started = MaxAttempts

\* C4: when the exhaustion error is raised, every node and the stored result
\* are what they were when minimize_negloglike was entered.
C4_FailureMutatesNothing ==
    err = "OptimizationFailed" => (nodes = before.nodes /\ result = before.result)

C4_Witness ==
    /\ err = "OptimizationFailed"
    /\ \A n \in Internals(cfg) : nodes[n].vectors.kind = "sym"

\* C5: the free-variable list is the model parameters followed by the symbols
\* of the internal nodes in index order, component by component; after a
\* normal return of minimize_negloglike component j of internal node n is the
\* entry of x at the position of symbol (n, j) in that list, and the entries
\* consumed are exactly the entries of x.
C5_PackUnpackAgree ==
    /\ variables # <<>> =>
        /\ Len(variables) = model + Cardinality(Internals(cfg)) * NVals
        /\ \A i \in 1 .. model : variables[i] = GetParameters(model)[i]
        /\ \A n \in Internals(cfg) : \A j \in 1 .. NVals :
              variables[model + (n - cfg.ntips) * NVals + j] = SymbolName(n, j - 1)
    /\ (done = "minimize_negloglike" \/ (stage = LastStage /\ result # <<>>)) =>
        /\ Len(result[1].x) = model + Cardinality(Internals(cfg)) * NVals
        /\ \A n \in Internals(cfg) :
              /\ nodes[n].vectors.kind = "num"
              /\ nodes[n].vectors.shape = nodes[0].vectors.shape
              /\ \A j \in 1 .. NVals :
                    /\ PositionOf(Flatten(nodes[n].vectors_symbols)[j]) > model
                    /\ Flatten(nodes[n].vectors)[j] =
                          result[1].x[PositionOf(Flatten(nodes[n].vectors_symbols)[j])]

C5_Witness ==
    /\ stage = LastStage
    /\ result # <<>>
    /\ Cardinality(Internals(cfg)) = 2
    /\ model = 2
    /\ Flatten(nodes[cfg.ntips + 1].vectors)[1] = "x6"

\* C6: in the initial guess of every attempt, each entry after the model
\* parameters lies in [0.995, 1.005] and each model-parameter entry in [0, 1).
C6_AncestralGuessNearOne ==
    (pc = "min_run" /\ variables # <<>>) =>
        /\ Len(initials) = Len(variables)
        /\ \A i \in 1 .. Len(initials) :
              IF i > model
              THEN initials[i] >= 99500 /\ initials[i] <= 100500
              ELSE initials[i] >= 0 /\ initials[i] < Scale

C8_PairingBeforeTraversal ==
    /\ (pc # "new" /\ cfg.fwd # cfg.inv /\ cfg.missing = {} /\ cfg.modelArg # -1)
            => err = "Pairing"
    /\ err = "Pairing" => \A n \in DOMAIN nodes : nodes[n] = NoNode

\* C9: if a leaf has no matching sample, construction raises the missing-data
\* error, and at that point no translator, vector, formula, compiled function
\* or optimization attempt exists.
C9_MissingLeafRaisesFirst ==
    /\ (pc # "new" /\ cfg.missing # {}) => (pc = "raised" /\ err = "MissingData")
    /\ err = "MissingData" =>
        /\ ~vv_translator
        /\ \A n \in DOMAIN nodes :
              nodes[n].vectors = NoArray /\ nodes[n].vectors_symbols = NoArray
        /\ loglike_form = <<>> /\ variables = <<>> /\ negloglike_func = <<>>
        /\ started = 0 /\ result = <<>> /\ calls = 0

C9_Witness ==
    /\ err = "MissingData"
    /\ cfg.missing = {1}
    /\ nodes[0].vertices # <<>>

OneTermPerBranch(form, nd) ==
    /\ Len(form) = NNodes(cfg) - 1
    /\ \A n \in DOMAIN nd :
          Cardinality({i \in 1 .. Len(form) : form[i].node = n})
              = (IF n = Root(cfg) THEN 0 ELSE 1)
    /\ \A i \in 1 .. Len(form) :
          /\ form[i].time = Dist(cfg, form[i].node)
          /\ form[i].from_states = nd[Up(cfg, form[i].node)].vectors
          /\ form[i].to_states = nd[form[i].node].vectors

\* C13: when formularize_log_like returns, the sum has nnodes - 1 terms, one
\* for each non-root node and none for the root, and the term of a node is
\* built from the node's branch length, its parent's vector as from_states and
\* its own vector as to_states; the count stays so while the formula is kept.
C13_OneTermPerNonRootNode ==
    /\ [][(formularize_log_like /\ pc' = "idle") =>
            OneTermPerBranch(loglike_form', nodes')]_vars
    /\ [](variables # <<>> =>
            /\ Len(loglike_form) = NNodes(cfg) - 1
            /\ \A n \in DOMAIN nodes :
                  Cardinality({i \in 1 .. Len(loglike_form) : loglike_form[i].node = n})
                      = (IF n = Root(cfg) THEN 0 ELSE 1))

C13_Witness ==
    /\ done = "formularize_log_like"
    /\ cfg.kind = "ladder"
    /\ Len(loglike_form) = 2 * cfg.ntips - 2
    /\ loglike_form[1].from_states.kind = "sym"
    /\ loglike_form[Len(loglike_form)].to_states.kind = "num"

\* C14: the names "<node>_<component>" of two different (node, component)
\* pairs differ, for all indices up to MaxIndex; the symbol arrays of the
\* internal nodes hold pairwise different symbols, and the part of the
\* free-variable list after the model parameters holds no symbol twice.
C14_SymbolsUnique ==
    /\ pc = "new" =>
          Cardinality({SymbolName(a, i) : a \in 0 .. MaxIndex, i \in 0 .. MaxIndex})
              = (MaxIndex + 1) * (MaxIndex + 1)
    /\ \A n, m \in Internals(cfg) :
          \A i \in 1 .. Len(Flatten(nodes[n].vectors_symbols)) :
              \A j \in 1 .. Len(Flatten(nodes[m].vectors_symbols)) :
                  (n # m \/ i # j) =>
                      Flatten(nodes[n].vectors_symbols)[i] # Flatten(nodes[m].vectors_symbols)[j]
    /\ \A i, j \in (model + 1) .. Len(variables) :
          i # j => variables[i] # variables[j]

C14_Witness ==
    /\ pc = "idle"
    /\ Cardinality(Internals(cfg)) >= 2
    /\ Len(variables) = model + 2 * NVals
    /\ NVals >= 3

\* C15: the free-variable list is written by formularize_log_like alone:
\* functionalize_log_like, every step of minimize_negloglike (entry, guesses,
\* attempts successful or not, the unpacking of the result) and
\* build_ancestral_vertices leave it as it is, and through the optimization
\* of the pipeline the arguments of the compiled function are that list.
C15_VariablesFrame ==
    /\ [][variables' # variables => formularize_log_like]_vars
    /\ [][(functionalize_log_like \/ minimize_enter \/ minimize_guess \/ minimize_attempt
              \/ minimize_finish \/ build_ancestral_vertices) => variables' = variables]_vars
    /\ []((stage \in {6, 7} /\ pc # "raised") => negloglike_func[1].args = variables)

C15_Witness ==
    /\ pc = "raised"
    /\ stage = LastStage
    /\ err = "AssertionError"
    /\ started = 2
    /\ Len(variables) = model + Cardinality(Internals(cfg)) * NVals
    /\ negloglike_func[1].args = variables

\* C16: once sym_ancestral_vectors has run, every node has a vector array, the
\* arrays of all nodes (numeric tips, symbolic or numeric internal nodes) have
\* the shape of the first tip's array and as many entries as that shape holds,
\* and so have the symbol arrays of the internal nodes; this is so with and
\* without a forward transform.
C16_SharedVectorShape ==
    (\E m \in Internals(cfg) : nodes[m].vectors.kind # "unset") =>
        \A n \in DOMAIN nodes :
            /\ nodes[n].vectors.kind # "unset"
            /\ nodes[n].vectors.shape = nodes[0].vectors.shape
            /\ Len(Flatten(nodes[n].vectors)) = Prod(nodes[0].vectors.shape)
            /\ nodes[n].vectors.kind = (IF n \in Tips(cfg) THEN "num" ELSE nodes[Root(cfg)].vectors.kind)
            /\ n \in Internals(cfg) =>
                  nodes[n].vectors_symbols.shape = nodes[0].vectors.shape

C16_Witness ==
    /\ stage = LastStage
    /\ pc = "idle"
    /\ cfg.fwd
    /\ Cardinality(Internals(cfg)) >= 2
    /\ \A n \in Internals(cfg) :
          nodes[n].vectors.kind = "num" /\ nodes[n].vectors.shape = <<cfg.pcs>>

\* C17: Vertices built from a non-empty list of coordinates and no colors is
\* constructed: building the vertices of an internal node never fails the
\* assertion of Vertices.__init__, and the vertices a node gets have one entry
\* per coordinate.
C17_ColorsOptional ==
    /\ err # "AssertionError"
    /\ \A n \in DOMAIN nodes :
          nodes[n].vertices # <<>> => VerticesLen(nodes[n].vertices[1]) = NumVertices(cfg)

\* C18: formularize_log_like called again right after it has returned leaves
\* the log-likelihood expression and the free-variable list as the first call
\* left them: still one term per non-root node, the list of the same length
\* and order, with no entry twice.
C18_FormularizeIdempotent ==
    /\ [][(formularize_log_like /\ done = "formularize_log_like" /\ pc' = "idle") =>
            (loglike_form' = loglike_form /\ variables' = variables)]_vars
    /\ []((repeated /\ done = "formularize_log_like") =>
            /\ Len(loglike_form) = NNodes(cfg) - 1
            /\ Len(variables) = model + Cardinality(Internals(cfg)) * NVals
            /\ \A i, j \in 1 .. Len(variables) : i # j => variables[i] # variables[j])

C18_Witness ==
    /\ repeated
    /\ done = "formularize_log_like"
    /\ pc = "idle"
    /\ Cardinality(Internals(cfg)) >= 2
    /\ Len(loglike_form) = NNodes(cfg) - 1

\* the initial guess of attempt k of a call entered with the generator in state g
ExpectedGuess(g, k) ==
    PerturbTail(RandomRandom((g + k - 1) % Cardinality(RngStates), Len(variables)),
                LenVt(nodes))

\* C12: with the inputs and the state of the random generator fixed, the full
\* reconstruction is one run up to the end of the optimization: every step
\* from its start to the return of minimize_negloglike has exactly one
\* possible successor state, the initial guess of attempt k is a function of
\* the seed and of k, and so is the outcome of every attempt.
C12_SameSeedSameRun ==
    /\ [][(stage \in 1 .. 6) =>
            \A v \in {vars'} : ~ENABLED (Next /\ vars' # v)]_vars
    /\ []((stage = 6 /\ pc = "min_run") => initials = ExpectedGuess(cfg.seed, started))
    /\ [][(stage = 6 /\ pc = "min_run") =>
            (success_runs' # <<>>) = (GuessClass(initials) \in cfg.basins)]_vars

C12_Witness ==
    /\ stage = LastStage
    /\ pc = "idle"
    /\ cfg.seed = 2
    /\ cfg.basins = {1}
    /\ started = 3
    /\ \A n \in Internals(cfg) : nodes[n].vectors.kind = "num"

\* C11: num_proc is accepted and ignored.  Every attempt runs in one process,
\* the attempts of a call run one after another (an attempt is started only
\* when all earlier ones have ended), and every step of the attempt loop taken
\* under the num_proc the caller gave is, with the same random draw and the
\* same successor state, a step under any other value of num_proc.
C11_NumProcIgnored ==
    /\ [](pc = "min_run" => workers = 1)
    /\ [](pc # "min_run" => workers = 0)
    /\ [](InMinimize =>
            started = count_run + Len(success_runs) + (IF pc = "min_run" THEN 1 ELSE 0))
    /\ [][\A q \in NumProcs : minimize_guess => MinimizeGuess(q)]_vars

C11_Witness ==
    /\ num_proc = 4
    /\ pc = "idle"
    /\ stage = LastStage
    /\ result # <<>>
    /\ started = 2
====
